---- MODULE Spec2Model ----
(***************************************************************************)
(* The RSVP service of src/main.py: a FastAPI application with two routes  *)
(* (POST /rsvp, GET /rsvp) over one MongoDB collection.  Handlers are      *)
(* plain `def` functions, which FastAPI runs on a thread pool, so several  *)
(* requests are in flight at once and interleave at their store calls.     *)
(***************************************************************************)
EXTENDS Integers, Sequences, FiniteSets, TLC

\* ------------------------------------------------------------------ bounds

\* Largest number of documents the model lets the collection hold.
MaxDocs == 3
\* The wall clock (microseconds) starts here and stops advancing at MaxNow.
ClockStart == 400
MaxNow == 2400
\* One advance of the wall clock, in microseconds.
ClockStep == 1000

\* Request slots of the thread pool.
Workers == {1, 2}

\* ------------------------------------------------------- JSON request bodies

\* A JSON value is tagged with its JSON type; a key the body does not carry
\* is Absent.
Absent == [t |-> "absent"]
JNull == [t |-> "null"]
JBool(b) == [t |-> "bool", v |-> b]
JStr(s) == [t |-> "str", v |-> s]
JNum(n) == [t |-> "num", v |-> n]

Ana == <<"A", "n", "a">>
ANA == <<"A", "N", "A">>
Bo == <<"B", "o">>
Lia == <<"L", "i", "a">>
Vegan == <<"v", "e", "g">>
Pw1 == <<"p", "1">>
Pw2 == <<"p", "2">>

EmptyBody ==
    [nome |-> Absent, comparecera |-> Absent, tem_filhos |-> Absent,
     nomes_dos_filhos |-> Absent, restricao_alimentar |-> Absent,
     password |-> Absent]

Body(nome, comparecera, tem_filhos, filhos, restricao) ==
    [EmptyBody EXCEPT !.nome = nome, !.comparecera = comparecera,
                      !.tem_filhos = tem_filhos, !.nomes_dos_filhos = filhos,
                      !.restricao_alimentar = restricao]

\* Bodies sent to POST /rsvp: three that validate, five that do not.
RsvpBodies ==
    { Body(JStr(Ana), JBool(TRUE), JBool(FALSE), JNull, JNull),
      Body(JStr(ANA), JBool(TRUE), JBool(TRUE), JStr(Lia), JStr(Vegan)),
      Body(JStr(Bo), JBool(FALSE), JBool(FALSE), Absent, Absent),
      Body(JStr(<<"A">>), JBool(TRUE), JBool(FALSE), JNull, JNull),
      Body(Absent, JBool(TRUE), JBool(FALSE), JNull, JNull),
      Body(JStr(Bo), Absent, JBool(FALSE), JNull, JNull),
      Body(JStr(Bo), JBool(TRUE), Absent, JNull, JNull),
      Body(JStr(Bo), JBool(TRUE), JStr(Lia), JNum(7), JNull) }

LoginBodies ==
    { [EmptyBody EXCEPT !.password = JStr(Pw1)],
      [EmptyBody EXCEPT !.password = JStr(Pw2)] }

Requests ==
    [method : {"POST"}, path : {"/rsvp"}, body : RsvpBodies]
    \cup [method : {"GET", "HEAD"}, path : {"/rsvp"}, body : {EmptyBody}]
    \cup [method : {"POST"}, path : {"/login"}, body : LoginBodies]

\* ---------------------------------------------------------------- startup

StartupOutcomes == {"ok", "ConnectionFailure", "Exception"}

\* Mutant: only a ConnectionFailure clears the handle.
CollectionAfterStartupOnlyConnFailure(outcome) ==
    IF outcome = "ConnectionFailure" THEN "None" ELSE "handle"

\* The module-level try/except: both except branches set collection = None.
CollectionAfterStartup(outcome) ==
    IF outcome = "ok" THEN "handle" ELSE "None"

\* --------------------------------------------------------------- RSVPModel

\* Mutant: min_length = 1.
MinNameLengthOne == 2 - 1

\* nome: str = Field(..., min_length=2)
MinNameLength == 2

StrOk(val) == val.t = "str"
BoolOk(val) == val.t = "bool"
OptStrOk(val) == val.t \in {"absent", "null", "str"}

\* The fields pydantic reports for a body: a required field missing or of
\* the wrong type, nome shorter than min_length, an optional field that is
\* neither null nor a string.
ValidationErrors(body) ==
    {f \in {"nome"} :
        \/ ~StrOk(body.nome)
        \/ Len(body.nome.v) < MinNameLength}
    \cup {f \in {"comparecera"} : ~BoolOk(body.comparecera)}
    \cup {f \in {"tem_filhos"} : ~BoolOk(body.tem_filhos)}
    \cup {f \in {"nomes_dos_filhos"} : ~OptStrOk(body.nomes_dos_filhos)}
    \cup {f \in {"restricao_alimentar"} : ~OptStrOk(body.restricao_alimentar)}

\* Optional[str] = Field(None, ...): an absent key takes the default None.
OptDefault(val) == IF val.t = "absent" THEN JNull ELSE val

\* rsvp.model_dump()
ModelDump(body) ==
    [nome |-> body.nome.v,
     comparecera |-> body.comparecera.v,
     tem_filhos |-> body.tem_filhos.v,
     nomes_dos_filhos |-> OptDefault(body.nomes_dos_filhos),
     restricao_alimentar |-> OptDefault(body.restricao_alimentar)]

NoDict ==
    [nome |-> <<>>, comparecera |-> FALSE, tem_filhos |-> FALSE,
     nomes_dos_filhos |-> JNull, restricao_alimentar |-> JNull, timestamp |-> 0]

\* rsvp_dict["timestamp"] = datetime.now(timezone.utc)
WithTimestamp(d, t) ==
    [nome |-> d.nome, comparecera |-> d.comparecera, tem_filhos |-> d.tem_filhos,
     nomes_dos_filhos |-> d.nomes_dos_filhos,
     restricao_alimentar |-> d.restricao_alimentar, timestamp |-> t]

\* ------------------------------------------------------------------- store

\* A BSON datetime holds milliseconds: the microseconds of datetime.now()
\* are cut off when the document is encoded for insert_one.
MicrosPerMilli == 1000
BsonDatetime(t) == t - (t % MicrosPerMilli)

\* Mutant: every document gets the same _id.
NewObjectIdConstant(n) == 1

\* insert_one gives the document a fresh ObjectId; n ids were made before.
NewObjectId(n) == n + 1

\* The document as the collection keeps it.
StoredDoc(d, oid) ==
    [id |-> oid, nome |-> d.nome, comparecera |-> d.comparecera,
     tem_filhos |-> d.tem_filhos, nomes_dos_filhos |-> d.nomes_dos_filhos,
     restricao_alimentar |-> d.restricao_alimentar,
     timestamp |-> BsonDatetime(d.timestamp)]

\* Mutant: an upsert keyed on nome, replacing the document of that name.
StoreAfterInsertUpsert(s, doc) ==
    Append(SelectSeq(s, LAMBDA x : x.nome # doc.nome), doc)

\* collection.insert_one(rsvp_dict): the collection gains the document.
StoreAfterInsert(s, doc) == Append(s, doc)

\* collection.find_one({"_id": oid}): the first match, or none.
FindOneById(s, oid) ==
    LET hits == {i \in 1..Len(s) : s[i].id = oid}
    IN IF hits = {} THEN <<>>
       ELSE <<s[CHOOSE i \in hits : \A j \in hits : i <= j]>>

\* Mutant: ascending order.
PrecedesAscending(a, b) == a.timestamp <= b.timestamp

\* sort("timestamp", -1): a may come before b.
Precedes(a, b) == a.timestamp >= b.timestamp

\* Mutant: the query keeps only the guests who attend.
FindAllAttending(s) == SelectSeq(s, LAMBDA x : x.comparecera)

\* collection.find(): every document of the collection.
FindAll(s) == s

\* The orders of the documents at positions idx of s in which each document
\* may come before all that follow it.
RECURSIVE Orders(_, _)
Orders(s, idx) ==
    IF idx = {} THEN {<<>>}
    ELSE UNION { {<<s[i]>> \o rest : rest \in Orders(s, idx \ {i})} :
                 i \in {i \in idx : \A j \in idx : Precedes(s[i], s[j])} }

\* list(collection.find().sort("timestamp", -1)): the orders the store may
\* return; documents of equal timestamp come in any order.
FindSorted(s) == Orders(FindAll(s), 1..Len(FindAll(s)))

\* ---------------------------------------------------------------- responses

\* str(ObjectId)
ObjectIdToStr(oid) == ToString(oid)

\* convert_objectid_to_str, then the response model.
ConvertObjectidToStr(doc) == [doc EXCEPT !.id = ObjectIdToStr(doc.id)]

ConvertAll(s) == [i \in 1..Len(s) |-> ConvertObjectidToStr(s[i])]

\* The routes the application registers.
Routes ==
    { [method |-> "POST", path |-> "/rsvp"],
      [method |-> "GET", path |-> "/rsvp"] }

\* The router's answer for a request: the handler, or 404 when no route has
\* the path, or 405 when the path is known and the method is not.
Dispatch(r) ==
    IF [method |-> r.method, path |-> r.path] \in Routes
    THEN IF r.method = "POST" THEN "registrar_presenca" ELSE "listar_confirmacoes"
    ELSE IF \E rt \in Routes : rt.path = r.path THEN "405" ELSE "404"

NoReq == [method |-> "", path |-> "", body |-> EmptyBody]
NoOut == [kind |-> "none"]

VARIABLES
    startup,      \* how the module-level connection attempt ended
    collection,   \* the global `collection`: "handle" or "None"
    storeUp,      \* whether the MongoDB deployment can be reached now
    store,        \* the documents of the collection, in insertion order
    oidCount,     \* ObjectIds generated so far
    now,          \* the wall clock, microseconds
    pc,           \* each worker's position in its handler
    req,          \* the request each worker handles
    rsvp_dict,    \* registrar_presenca's rsvp_dict
    inserted_id,  \* result.inserted_id
    ops,          \* the store calls the worker's request made so far
    startLen,     \* Len(store) when the worker's request arrived
    solo,         \* no other POST /rsvp was in flight during this one so far
    out,          \* the response this step sent, or NoOut
    returned,     \* the bodies of the 201 responses sent so far
    n201          \* how many 201 responses were sent so far

vars ==
    <<startup, collection, storeUp, store, oidCount, now, pc, req, rsvp_dict,
      inserted_id, ops, startLen, solo, out, returned, n201>>

Response(r, status, detail, errors, body, raised, handled, calls, len0, alone) ==
    [kind |-> "resp", req |-> r, status |-> status,
     detail |-> detail, errors |-> errors, body |-> body, raised |-> raised,
     handled |-> handled, ops |-> calls, startLen |-> len0, solo |-> alone]

Init ==
    /\ startup \in StartupOutcomes
    /\ collection = CollectionAfterStartup(startup)
    /\ storeUp = (startup = "ok")
    /\ store = <<>>
    /\ oidCount = 0
    /\ now = ClockStart
    /\ pc = [w \in Workers |-> "idle"]
    /\ req = [w \in Workers |-> NoReq]
    /\ rsvp_dict = [w \in Workers |-> NoDict]
    /\ inserted_id = [w \in Workers |-> 0]
    /\ ops = [w \in Workers |-> <<>>]
    /\ startLen = [w \in Workers |-> 0]
    /\ solo = [w \in Workers |-> TRUE]
    /\ out = NoOut
    /\ returned = {}
    /\ n201 = 0

\* The worker is done: its locals are dropped.
Finish(w) ==
    /\ pc' = [pc EXCEPT ![w] = "idle"]
    /\ req' = [req EXCEPT ![w] = NoReq]
    /\ rsvp_dict' = [rsvp_dict EXCEPT ![w] = NoDict]
    /\ inserted_id' = [inserted_id EXCEPT ![w] = 0]
    /\ ops' = [ops EXCEPT ![w] = <<>>]
    /\ startLen' = [startLen EXCEPT ![w] = 0]
    /\ solo' = [solo EXCEPT ![w] = TRUE]

\* The worker goes on to a store call at position p.
Proceed(w, r, p, d) ==
    /\ pc' = [pc EXCEPT ![w] = p]
    /\ req' = [req EXCEPT ![w] = r]
    /\ rsvp_dict' = [rsvp_dict EXCEPT ![w] = d]
    /\ startLen' = [startLen EXCEPT ![w] = Len(store)]
    /\ solo' = [v \in Workers |->
                  IF v = w THEN \A u \in Workers \ {w} : pc[u] = "idle"
                  ELSE IF pc[v] = "idle" THEN solo[v] ELSE FALSE]
    /\ out' = NoOut
    /\ UNCHANGED <<inserted_id, ops>>

\* A response sent before any store call is reached.  It reads nothing but
\* `collection`, so the other workers' positions cannot change it; it is
\* taken at a moment when they are idle.
Reply(w, r, status, detail, errors, handled) ==
    /\ \A v \in Workers : pc[v] = "idle"
    /\ out' = Response(r, status, detail, errors, <<>>, "none", handled,
                       <<>>, Len(store), TRUE)
    /\ UNCHANGED <<pc, req, rsvp_dict, inserted_id, ops, startLen, solo>>

\* listar_confirmacoes past its check of `collection`: its one store call,
\* confirmacoes = list(collection.find().sort("timestamp", -1)), and the
\* return; or the exception of a store that cannot be reached, which no
\* handler catches.
Find(w, r) ==
    /\ IF storeUp
       THEN \E confirmacoes \in FindSorted(store) :
               out' = Response(r, 200, "", {}, ConvertAll(confirmacoes),
                               "none", TRUE, <<"find">>, Len(store), TRUE)
       ELSE out' = Response(r, 500, "Internal Server Error", {}, <<>>,
                            "ServerSelectionTimeoutError", FALSE, <<"find">>,
                            Len(store), TRUE)
    /\ UNCHANGED <<pc, req, rsvp_dict, inserted_id, ops, startLen, solo>>

\* A request arrives and the pool hands it to its first idle worker:
\* routing, body validation, and the handler up to its first store call.
Receive(w, r) ==
    /\ pc[w] = "idle"
    /\ \A v \in Workers : v < w => pc[v] # "idle"
    /\ LET h == Dispatch(r)
       IN CASE h = "404" ->
                 Reply(w, r, 404, "Not Found", {}, TRUE)
            [] h = "405" ->
                 Reply(w, r, 405, "Method Not Allowed", {}, TRUE)
            [] h = "registrar_presenca" ->
                 IF ValidationErrors(r.body) # {}
                 THEN Reply(w, r, 422, "validation", ValidationErrors(r.body), TRUE)
                 ELSE IF collection = "None"
                 THEN Reply(w, r, 503, "Nao foi possivel conectar ao banco de dados.",
                            {}, TRUE)
                 ELSE /\ oidCount + Cardinality({v \in Workers : pc[v] = "insert"})
                           < MaxDocs
                      /\ Proceed(w, r, "insert",
                                 WithTimestamp(ModelDump(r.body), now))
            [] h = "listar_confirmacoes" ->
                 IF collection = "None"
                 THEN Reply(w, r, 503, "Nao foi possivel conectar ao banco de dados.",
                            {}, TRUE)
                 ELSE Find(w, r)
    /\ UNCHANGED <<startup, collection, storeUp, store, oidCount, now, returned,
                   n201>>

\* A store call that cannot reach the deployment raises; no handler catches
\* it, and the server answers 500 for the unhandled exception.
Unhandled(w, call) ==
    /\ out' = Response(req[w], 500, "Internal Server Error", {}, <<>>,
                       "ServerSelectionTimeoutError", FALSE,
                       Append(ops[w], call), startLen[w], solo[w])
    /\ Finish(w)

\* result = collection.insert_one(rsvp_dict)
InsertOne(w) ==
    /\ pc[w] = "insert"
    /\ oidCount' = oidCount + 1
    /\ IF storeUp
       THEN /\ store' = StoreAfterInsert(store,
                            StoredDoc(rsvp_dict[w], NewObjectId(oidCount)))
            /\ inserted_id' = [inserted_id EXCEPT ![w] = NewObjectId(oidCount)]
            /\ pc' = [pc EXCEPT ![w] = "fetch"]
            /\ ops' = [ops EXCEPT ![w] = Append(@, "insert_one")]
            /\ out' = NoOut
            /\ UNCHANGED <<req, rsvp_dict, startLen, solo>>
       ELSE /\ Unhandled(w, "insert_one")
            /\ UNCHANGED store
    /\ UNCHANGED <<startup, collection, storeUp, now, returned, n201>>

\* created_rsvp = collection.find_one({"_id": result.inserted_id}), the 500
\* when it is missing, and the return.
FindOne(w) ==
    /\ pc[w] = "fetch"
    /\ IF storeUp
       THEN LET created_rsvp == FindOneById(store, inserted_id[w])
                calls == Append(ops[w], "find_one")
            IN IF created_rsvp = <<>>
               THEN /\ out' = Response(req[w], 500,
                                "Nao foi possivel criar e recuperar o registro.",
                                {}, <<>>, "none", TRUE, calls, startLen[w],
                                solo[w])
                    /\ UNCHANGED <<returned, n201>>
               ELSE /\ out' = Response(req[w], 201, "", {},
                                <<ConvertObjectidToStr(created_rsvp[1])>>,
                                "none", TRUE, calls, startLen[w], solo[w])
                    /\ returned' = returned
                                      \cup {ConvertObjectidToStr(created_rsvp[1])}
                    /\ n201' = n201 + 1
            /\ Finish(w)
       ELSE /\ Unhandled(w, "find_one")
            /\ UNCHANGED <<returned, n201>>
    /\ UNCHANGED <<startup, collection, storeUp, store, oidCount, now>>

\* The wall clock advances.
Tick ==
    /\ now + ClockStep <= MaxNow
    /\ now' = now + ClockStep
    /\ out' = NoOut
    /\ UNCHANGED <<startup, collection, storeUp, store, oidCount, pc, req,
                   rsvp_dict, inserted_id, ops, startLen, solo, returned, n201>>

\* The deployment becomes unreachable after a successful startup, and stays
\* so for the rest of the run.
StoreGoesDown ==
    /\ collection = "handle"
    /\ storeUp
    /\ storeUp' = FALSE
    /\ out' = NoOut
    /\ UNCHANGED <<startup, collection, store, oidCount, now, pc, req,
                   rsvp_dict, inserted_id, ops, startLen, solo, returned, n201>>

Next ==
    \/ \E w \in Workers, r \in Requests : Receive(w, r)
    \/ \E w \in Workers : InsertOne(w)
    \/ \E w \in Workers : FindOne(w)
    \/ Tick
    \/ StoreGoesDown

Spec == Init /\ [][Next]_vars

\* ------------------------------------------------------------------ claims

Range(f) == {f[i] : i \in DOMAIN f}

\* Case folding of the letters the request names use.
Lower(c) ==
    CASE c = "A" -> "a"
      [] c = "N" -> "n"
      [] c = "B" -> "b"
      [] OTHER -> c
FoldCase(name) == [i \in 1..Len(name) |-> Lower(name[i])]

IsPostRsvp == out.kind = "resp" /\ out.req.method = "POST" /\ out.req.path = "/rsvp"
IsGetRsvp == out.kind = "resp" /\ out.req.method = "GET" /\ out.req.path = "/rsvp"
IsHeadRsvp == out.kind = "resp" /\ out.req.method = "HEAD" /\ out.req.path = "/rsvp"
IsPostLogin == out.kind = "resp" /\ out.req.method = "POST" /\ out.req.path = "/login"

\* The submission is well-formed, stated from the schema's words: the three
\* required fields of their types, a name of two characters or more, the
\* optional fields text or nothing.
WellFormed(body) ==
    /\ body.nome.t = "str"
    /\ Len(body.nome.v) >= 2
    /\ body.comparecera.t = "bool"
    /\ body.tem_filhos.t = "bool"
    /\ body.nomes_dos_filhos.t \in {"absent", "null", "str"}
    /\ body.restricao_alimentar.t \in {"absent", "null", "str"}

\* A record whose name matches the request's, case-insensitively, was stored
\* when the request arrived.
NameTakenAtArrival ==
    \E i \in 1..out.startLen :
        i <= Len(store)
        /\ FoldCase(store[i].nome) = FoldCase(out.req.body.nome.v)

\* C1: a valid POST /rsvp that overlaps no other POST /rsvp and whose name
\* equals, case-insensitively, the name of a record already stored when it
\* arrived fails with 409 and inserts nothing.
C1_DuplicateRejected ==
    (IsPostRsvp /\ WellFormed(out.req.body) /\ collection = "handle"
       /\ out.raised = "none" /\ out.solo /\ NameTakenAtArrival)
    => (out.status = 409 /\ "insert_one" \notin Range(out.ops))

\* C2: a GET /rsvp answered with the store reachable succeeds and lists every
\* stored record exactly once, a record of later timestamp before any record
\* of earlier timestamp.
C2_ListSortedDescending ==
    (IsGetRsvp /\ collection = "handle" /\ out.raised = "none")
    => /\ out.status = 200
       /\ Len(out.body) = Len(store)
       /\ \A k \in 1..Len(store) :
            Cardinality({i \in 1..Len(out.body) :
                           out.body[i] = ConvertObjectidToStr(store[k])}) = 1
       /\ \A i, j \in 1..Len(out.body) :
            (i < j /\ out.body[i].timestamp # out.body[j].timestamp)
            => out.body[i].timestamp > out.body[j].timestamp

\* Three records inserted at T1 < T2 < T3 are listed as [T3, T2, T1].
C2_Witness ==
    /\ IsGetRsvp
    /\ out.status = 200
    /\ Len(store) = 3
    /\ store[1].timestamp < store[2].timestamp
    /\ store[2].timestamp < store[3].timestamp
    /\ out.body = <<ConvertObjectidToStr(store[3]), ConvertObjectidToStr(store[2]),
                    ConvertObjectidToStr(store[1])>>

\* The submission misses a required field or has a name under 2 characters.
Malformed(body) ==
    \/ body.nome.t = "absent"
    \/ body.comparecera.t = "absent"
    \/ body.tem_filhos.t = "absent"
    \/ (body.nome.t = "str" /\ Len(body.nome.v) < 2)

\* C3: a POST /rsvp that misses a required field or has a name shorter than
\* 2 characters is answered 422 naming the fields, with no store call made
\* and the collection as it was when the request arrived.
C3_InvalidRejectedBeforeStore ==
    (IsPostRsvp /\ Malformed(out.req.body))
    => /\ out.status = 422
       /\ out.errors # {}
       /\ out.ops = <<>>
       /\ Len(store) = out.startLen

\* A submission without comparecera is rejected while records are stored.
C3_Witness ==
    /\ IsPostRsvp
    /\ out.req.body.comparecera.t = "absent"
    /\ out.status = 422
    /\ Len(store) >= 1

\* No stored record had the request's name, case-insensitively, on arrival.
NameFreeAtArrival ==
    \A i \in 1..out.startLen :
        i <= Len(store)
        => FoldCase(store[i].nome) # FoldCase(out.req.body.nome.v)

\* C4: with the store reachable, a valid POST /rsvp whose name no stored
\* record has is answered 201 with the one record it added, which carries
\* the submitted fields, a store-generated id and the server's timestamp;
\* the ids of all 201 responses are pairwise distinct.
C4_CreateReturnsNewRecord ==
    /\ Cardinality({b.id : b \in returned}) = n201
    /\ (IsPostRsvp /\ WellFormed(out.req.body) /\ collection = "handle"
          /\ out.raised = "none" /\ NameFreeAtArrival)
       => /\ out.status = 201
          /\ out.ops = <<"insert_one", "find_one">>
          /\ Cardinality({i \in 1..Len(store) :
                            ConvertObjectidToStr(store[i]) = out.body[1]}) = 1
          /\ Cardinality({i \in 1..Len(store) :
                            ObjectIdToStr(store[i].id) = out.body[1].id}) = 1
          /\ out.body[1].nome = out.req.body.nome.v
          /\ out.body[1].comparecera = out.req.body.comparecera.v
          /\ out.body[1].tem_filhos = out.req.body.tem_filhos.v
          /\ out.body[1].timestamp <= now
          /\ out.body[1].timestamp % MicrosPerMilli = 0

\* A second record of a new name is created beside a stored one.
C4_Witness ==
    /\ IsPostRsvp
    /\ out.status = 201
    /\ out.startLen >= 1
    /\ NameFreeAtArrival
    /\ n201 >= 2

\* C5: every record a POST /rsvp returned is in the list of every later
\* successful GET /rsvp, field for field and with the same id.
C5_ReturnedRecordsListed ==
    (IsGetRsvp /\ out.status = 200)
    => \A b \in returned : \E i \in 1..Len(out.body) : out.body[i] = b

\* A list that holds two returned records and one more, stored since.
C5_Witness ==
    /\ IsGetRsvp
    /\ out.status = 200
    /\ Cardinality(returned) = 2
    /\ Len(out.body) = 3

\* C6: after a failed startup the handle stays absent, and a valid POST
\* /rsvp and a GET /rsvp are answered 503 with no store call.
C6_DegradedMode ==
    startup # "ok"
    => /\ collection = "None"
       /\ store = <<>>
       /\ ((IsPostRsvp /\ WellFormed(out.req.body)) \/ IsGetRsvp)
          => (out.status = 503 /\ out.ops = <<>> /\ out.handled)

\* A valid POST /rsvp answered 503 after a startup that failed otherwise
\* than by ConnectionFailure.
C6_Witness ==
    /\ startup = "Exception"
    /\ IsPostRsvp
    /\ WellFormed(out.req.body)
    /\ out.status = 503

\* C7: a store call that cannot reach the store is answered 503 by the
\* handler, never an unmapped exception.
C7_StoreFailureMapped ==
    (out.kind = "resp" /\ out.raised # "none")
    => (out.status = 503 /\ out.handled)

\* The secrets the server may hold: none, or one of the passphrases.
Secrets == {JNull, JStr(Pw1), JStr(Pw2)}

\* C8: for the configured secret, POST /login answers 500 when none is set,
\* 200 when the passphrase equals it and 401 otherwise, changing no state.
C8_LoginContract ==
    \E secret \in Secrets :
        IsPostLogin
        => /\ out.status = IF secret = JNull THEN 500
                           ELSE IF out.req.body.password = secret THEN 200
                           ELSE 401
           /\ out.ops = <<>>

\* C9: HEAD /rsvp answers 200 with an empty body and makes no store call.
C9_HeadAlwaysOk ==
    IsHeadRsvp => (out.status = 200 /\ out.body = <<>> /\ out.ops = <<>>)

\* Two requests of case-insensitively equal names, both arrived at the same
\* collection and both past their insert_one.
Raced(w1, w2) ==
    /\ w1 # w2
    /\ pc[w1] = "fetch"
    /\ pc[w2] = "fetch"
    /\ startLen[w1] = startLen[w2]
    /\ FoldCase(req[w1].body.nome.v) = FoldCase(req[w2].body.nome.v)

\* C10: when two POST /rsvp of case-insensitively equal names are both in
\* flight before either has inserted, both inserts take effect: the
\* collection holds two records, one per request, of duplicate names.
C10_RaceLeavesDuplicates ==
    \A w1, w2 \in Workers :
        Raced(w1, w2)
        => \E i, j \in 1..Len(store) :
              /\ i # j
              /\ store[i].id = inserted_id[w1]
              /\ store[j].id = inserted_id[w2]
              /\ FoldCase(store[i].nome) = FoldCase(store[j].nome)

\* "Ana" and "ANA" raced, and both are stored.
C10_Witness ==
    /\ Raced(1, 2)
    /\ req[1].body.nome.v = Ana
    /\ req[2].body.nome.v = ANA
    /\ Len(store) = 2

====
